---- MODULE Spec2Model ----
(***************************************************************************)
(* Session / credential lifecycle of the bank-statement converter API.     *)
(*                                                                         *)
(* The repository ships two applications around the same lifecycle:        *)
(*   src/main.py       session.json + threading.Lock (STATE_LOCK)          *)
(*   src/api/index.py  Redis keys auth_token / credits, no lock            *)
(* `app` says which of the two is deployed.  Every request is handled by   *)
(* a worker t whose position in the handler is pc[t]; a worker that has    *)
(* answered takes the next request.  The upstream conversion service and   *)
(* the mailbox provider are the environment: a call to them (api_calls.py, *)
(* httpx in index.py) is taken by its contract, it returns its result or   *)
(* raises, chosen nondeterministically.                                    *)
(*                                                                         *)
(* Concurrency.  main.py guards its Session with a threading.Lock and      *)
(* states that its calls are synchronous and run in a thread pool          *)
(* (main.py:64), so its requests are threads that interleave between any   *)
(* two steps and exclude each other only through STATE_LOCK.  index.py is  *)
(* deployed as independent instances on one Redis, so its requests         *)
(* interleave between any two Redis commands.                              *)
(*                                                                         *)
(* Three specifications.  Spec: the request handlers of both applications. *)
(* FairSpec: main.py with every received request given its turn, for the   *)
(* progress of requests through STATE_LOCK.  PollSpec: the bounded poll    *)
(* loops (check_inbox, _get_verification_link, poll_and_convert_statement) *)
(* followed iteration by iteration; inside Spec each of them is one step   *)
(* that returns or raises.                                                 *)
(***************************************************************************)
EXTENDS Integers, Sequences, FiniteSets, TLC

\* ------------------------------------------------------------------ bounds
NThreads == 2                     \* requests in flight at the same time
MaxRequests == 3                  \* requests received in one run

\* ------------------------------------------------------- program constants
MAX_USAGE == 5
MAX_REGISTRATION_ATTEMPTS == 5
CREDITS_PER_ACCOUNT == 5

Threads == 1..NThreads
None == 0                         \* Python None / Redis nil for a token
Tokens == 1..(MaxRequests + 1)    \* tokens the upstream can have issued
NoLock == 0

VARIABLES
  app,            \* "main" (src/main.py) or "index" (src/api/index.py)
  redis_client,   \* index.py: TRUE when the constructor connected
  pc,             \* pc[t]: where worker t is in its handler
  auth_token,     \* the token the handler of t holds
  next_token,     \* upstream: number of tokens issued so far
  started,        \* requests received so far
  session_file,   \* main.py: session.json
  STATE_LOCK,     \* main.py: holder of the threading.Lock, NoLock when free
  session,        \* main.py: the local `session` of the call t is in
  attempt,        \* main.py: attempts _create_new_session has finished
  redis,          \* index.py: the keys auth_token and credits
  prov,           \* history: provisioning sequences run by t's current call
  snapshot,       \* history: session.json as t's get_valid_token found it
  used,           \* history, main.py: used[k] conversions made with token k
  charged,        \* history: usage recorded since the Session was installed
  base,           \* history: value last SET on the credits key
  decrs,          \* history: use_credit() calls since that SET
  converted,      \* history: the conversion of t's request returned its result
  recorded,       \* history: usage records written by t's request
  credentials,    \* main.py: attempt whose line 61 made t's credentials, or 0
  saves,          \* history: _save_session calls of t's get_valid_token()
  answer,         \* index.py: status of the response line 82 or 87 dropped
  unauthorized,   \* history, index.py: the token last answered with a 401
  seen,           \* history: `unauthorized` when t's call read credits > 0
  \* the polling loops, followed on their own (PollSpec)
  fn,             \* the function that runs, "none" inside a request
  at,             \* where it is: "request", "sleep" or "end"
  iteration,      \* iterations of its `for` loop that are over
  status_code,    \* status of the last response, 0 when the request raised
  inbox,          \* the listing the last inbox poll returned
  outcome,        \* "running", or how the function ended
  found,          \* position in `inbox` of the message that was selected
  polls,          \* history: requests sent to the polled endpoint
  sleeps,         \* history: calls of async_sleep / asyncio.sleep
  not_ready,      \* history: 400 answers to poll_and_convert_statement
  errors          \* history: requests that raised httpx.RequestError

\* the variables of the request handlers and those of the polling loops
requestVars == <<app, redis_client, pc, auth_token, next_token, started,
                 session_file, STATE_LOCK, session, attempt, redis, prov,
                 snapshot, used, charged, base, decrs, converted, recorded,
                 credentials, saves, answer, unauthorized,
                 seen>>
pollVars == <<fn, at, iteration, status_code, inbox, outcome, found, polls,
              sleeps, not_ready, errors>>
vars == <<requestVars, pollVars>>

\* what no step of a request changes
fixed == <<app, redis_client, pollVars>>
mainVars == <<session_file, STATE_LOCK, session, attempt, snapshot, charged>>
idxVars == <<redis, base, decrs, unauthorized, seen>>
reqHist == <<converted, recorded>>
provHist == <<credentials, saves>>

\* ------------------------------------------------------------ Session Store
EmptySession == [token |-> None, usage_count |-> 0]
\* session.json: absent, holding a Session, or present with content that
\* open() or json.load() cannot give back
NoFile ==
  [exists |-> FALSE, readable |-> TRUE, token |-> None, usage_count |-> 0]
FileOf(s) ==
  [exists |-> TRUE, readable |-> TRUE,
   token |-> s.token, usage_count |-> s.usage_count]
Unreadable ==
  [exists |-> TRUE, readable |-> FALSE, token |-> None, usage_count |-> 0]

_load_session(f) ==
  IF ~f.exists THEN EmptySession            \* lines 45-46
  ELSE IF ~f.readable THEN EmptySession     \* lines 50-51
  ELSE [token |-> f.token, usage_count |-> f.usage_count]

_save_session(session_data) == FileOf(session_data)

\* variants of line 86 with the quota comparison off by one
NeedsProvisioning_quota_early(s) ==
  s.token = None \/ s.usage_count + 1 >= MAX_USAGE
NeedsProvisioning_quota_late(s) ==
  s.token = None \/ s.usage_count > MAX_USAGE

\* line 86 of main.py: the Session must be replaced
NeedsProvisioning(s) == s.token = None \/ s.usage_count >= MAX_USAGE

\* Redis: a key holds <<v>> or is nil (<<>>)
Nil == <<>>
NoKeys == [auth_token |-> None, credits |-> Nil]
IntOrZero(v) == IF v = Nil THEN 0 ELSE v[1]
\* a decrement that stops at zero instead of Redis DECR
DECR_clamped(v) == <<IF IntOrZero(v) > 0 THEN IntOrZero(v) - 1 ELSE 0>>
\* Redis DECR: a missing key counts as 0
DECR(v) == <<IntOrZero(v) - 1>>

\* ----------------------------------------------------------------- Init
\* A deployment starts with no Session, or with the Session an earlier run
\* left behind: token 1 after n recorded conversions, or a session.json that
\* cannot be read back.
RequestInit ==
  /\ app \in {"main", "index"}
  /\ pc = [t \in Threads |-> "idle"]
  /\ auth_token = [t \in Threads |-> None]
  /\ started = 0
  /\ STATE_LOCK = NoLock
  /\ session = [t \in Threads |-> EmptySession]
  /\ attempt = [t \in Threads |-> 0]
  /\ prov = [t \in Threads |-> 0]
  /\ snapshot = [t \in Threads |-> NoFile]
  /\ decrs = 0
  /\ converted = [t \in Threads |-> FALSE]
  /\ recorded = [t \in Threads |-> 0]
  /\ credentials = [t \in Threads |-> 0]
  /\ saves = [t \in Threads |-> 0]
  /\ answer = [t \in Threads |-> 0]
  /\ unauthorized = None
  /\ seen = [t \in Threads |-> None]
  /\ \/ /\ app = "main"
        /\ redis = NoKeys /\ redis_client = TRUE /\ base = 0
        /\ \/ /\ session_file = NoFile
              /\ next_token = 0 /\ charged = 0
              /\ used = [k \in Tokens |-> 0]
           \/ \E n \in 0..MAX_USAGE :
              /\ session_file = FileOf([token |-> 1, usage_count |-> n])
              /\ next_token = 1 /\ charged = n
              /\ used = [k \in Tokens |-> IF k = 1 THEN n ELSE 0]
           \/ /\ session_file = Unreadable
              /\ next_token = 1 /\ charged = 0
              /\ used = [k \in Tokens |-> 0]
     \/ /\ app = "index"
        /\ session_file = NoFile /\ charged = 0
        /\ redis_client \in BOOLEAN
        /\ \/ /\ redis = NoKeys
              /\ next_token = 0 /\ base = 0
              /\ used = [k \in Tokens |-> 0]
           \/ \E n \in 0..CREDITS_PER_ACCOUNT :
              /\ redis = [auth_token |-> 1, credits |-> <<n>>]
              /\ next_token = 1 /\ base = n
              /\ used = [k \in Tokens |-> 0]

\* no polling loop is being followed
PollIdle ==
  /\ fn = "none" /\ at = "end" /\ outcome = "none"
  /\ iteration = 0 /\ status_code = 0 /\ inbox = <<>> /\ found = 0
  /\ polls = 0 /\ sleeps = 0 /\ not_ready = 0 /\ errors = 0

Init == RequestInit /\ PollIdle

\* =================================================================== main.py
\* convert_statement_endpoint, lines 97-108: validate the upload, save it to a
\* temporary file, then call get_valid_token()
convert_statement_endpoint(t) ==
  /\ app = "main" /\ pc[t] = "idle" /\ started < MaxRequests
  /\ started' = started + 1
  /\ \E pdf \in BOOLEAN :
       pc' = [pc EXCEPT ![t] = IF pdf THEN "gvt_lock" ELSE "rejected"]
  /\ UNCHANGED <<fixed, answer, provHist, reqHist, mainVars, idxVars,
                 auth_token, next_token, prov, used>>

\* line 84 without the lock: the body is entered whoever holds STATE_LOCK
get_valid_token_no_lock(t) ==
  /\ app = "main" /\ pc[t] = "gvt_lock"
  /\ STATE_LOCK' = t
  /\ pc' = [pc EXCEPT ![t] = "gvt_load"]
  /\ UNCHANGED <<fixed, answer, provHist, reqHist, idxVars, auth_token,
                 next_token, started, prov, used, session_file, session,
                 attempt, snapshot, charged>>

\* get_valid_token, line 84: with STATE_LOCK
get_valid_token_acquire(t) ==
  /\ app = "main" /\ pc[t] = "gvt_lock"
  /\ STATE_LOCK = NoLock
  /\ STATE_LOCK' = t
  /\ pc' = [pc EXCEPT ![t] = "gvt_load"]
  /\ UNCHANGED <<fixed, answer, provHist, reqHist, idxVars, auth_token,
                 next_token, started, prov, used, session_file, session,
                 attempt, snapshot, charged>>

\* get_valid_token, lines 85-87: load the Session and decide
get_valid_token_load(t) ==
  /\ app = "main" /\ pc[t] = "gvt_load"
  /\ session' = [session EXCEPT ![t] = _load_session(session_file)]
  /\ snapshot' = [snapshot EXCEPT ![t] = session_file]
  /\ attempt' = [attempt EXCEPT ![t] = 0]
  /\ IF NeedsProvisioning(_load_session(session_file))
     THEN /\ pc' = [pc EXCEPT ![t] = "register"]
          /\ prov' = [prov EXCEPT ![t] = 1]
          /\ credentials' = [credentials EXCEPT ![t] = 1]
     ELSE /\ pc' = [pc EXCEPT ![t] = "gvt_return"]
          /\ prov' = [prov EXCEPT ![t] = 0]
          /\ credentials' = [credentials EXCEPT ![t] = 0]
  /\ saves' = [saves EXCEPT ![t] = 0]
  /\ UNCHANGED <<fixed, answer, reqHist, idxVars, auth_token, next_token,
                 started, used, session_file, STATE_LOCK, charged>>

\* lines 59 and 78-81 with a loop that runs one attempt too many
AttemptFailed_extra_attempt(t) ==
  /\ attempt' = [attempt EXCEPT ![t] = attempt[t] + 1]
  /\ IF attempt[t] + 1 <= MAX_REGISTRATION_ATTEMPTS
     THEN /\ pc' = [pc EXCEPT ![t] = "register"]
          /\ credentials' = [credentials EXCEPT ![t] = attempt[t] + 2]
          /\ UNCHANGED STATE_LOCK
     ELSE /\ pc' = [pc EXCEPT ![t] = "error"]
          /\ STATE_LOCK' = NoLock
          /\ UNCHANGED credentials

\* _create_new_session, lines 78-81: the attempt raised; the loop goes to the
\* next attempt, which makes its own credentials (line 61), or after the last
\* one the exception leaves get_valid_token
\* (the `with` releases STATE_LOCK) and the endpoint answers 500 (126-129)
AttemptFailed(t) ==
  /\ attempt' = [attempt EXCEPT ![t] = attempt[t] + 1]
  /\ IF attempt[t] + 1 < MAX_REGISTRATION_ATTEMPTS
     THEN /\ pc' = [pc EXCEPT ![t] = "register"]
          /\ credentials' = [credentials EXCEPT ![t] = attempt[t] + 2]
          /\ UNCHANGED STATE_LOCK
     ELSE /\ pc' = [pc EXCEPT ![t] = "error"]
          /\ STATE_LOCK' = NoLock
          /\ UNCHANGED credentials

\* one step of an attempt that talks to the outside and keeps nothing
ProvisioningStep(t, here, then) ==
  /\ app = "main" /\ pc[t] = here
  /\ \E ok \in BOOLEAN :
       IF ok THEN /\ pc' = [pc EXCEPT ![t] = then]
                  /\ UNCHANGED <<attempt, STATE_LOCK, credentials>>
       ELSE AttemptFailed(t)
  /\ UNCHANGED <<fixed, answer, saves, reqHist, idxVars, auth_token,
                 next_token, started, prov, used, session_file, session,
                 snapshot, charged>>

\* _create_new_session, line 65
register_user(t) == ProvisioningStep(t, "register", "check_inbox")
\* _create_new_session, line 67
check_inbox(t) == ProvisioningStep(t, "check_inbox", "read_email")
\* _create_new_session, lines 68-69
read_email(t) == ProvisioningStep(t, "read_email", "extract_link")
\* _create_new_session, lines 70-71
extract_verification_link_from_html(t) ==
  ProvisioningStep(t, "extract_link", "verify")
\* _create_new_session, line 72
verify_email_account(t) == ProvisioningStep(t, "verify", "login")

\* line 74 keeping the old counter next to the new token
login_keeps_count(t) ==
  /\ app = "main" /\ pc[t] = "login"
  /\ \E ok \in BOOLEAN :
       IF ok
       THEN /\ next_token' = next_token + 1
            /\ session' = [session EXCEPT ![t] =
                 [token |-> next_token + 1,
                  usage_count |-> session[t].usage_count]]
            /\ pc' = [pc EXCEPT ![t] = "save"]
            /\ UNCHANGED <<attempt, STATE_LOCK, credentials>>
       ELSE /\ AttemptFailed(t)
            /\ UNCHANGED <<next_token, session>>
  /\ UNCHANGED <<fixed, answer, saves, reqHist, idxVars, auth_token, started,
                 prov, used, session_file, snapshot, charged>>

\* _create_new_session, lines 73-74: login returns the new account's token
login(t) ==
  /\ app = "main" /\ pc[t] = "login"
  /\ \E ok \in BOOLEAN :
       IF ok
       THEN /\ next_token' = next_token + 1
            /\ session' = [session EXCEPT ![t] =
                 [token |-> next_token + 1, usage_count |-> 0]]
            /\ pc' = [pc EXCEPT ![t] = "save"]
            /\ UNCHANGED <<attempt, STATE_LOCK, credentials>>
       ELSE /\ AttemptFailed(t)
            /\ UNCHANGED <<next_token, session>>
  /\ UNCHANGED <<fixed, answer, saves, reqHist, idxVars, auth_token, started,
                 prov, used, session_file, snapshot, charged>>

\* lines 75-77 without the return: the loop goes on after the save
_create_new_session_no_return(t) ==
  /\ app = "main" /\ pc[t] = "save"
  /\ session_file' = _save_session(session[t])
  /\ charged' = 0
  /\ saves' = [saves EXCEPT ![t] = @ + 1]
  /\ attempt' = [attempt EXCEPT ![t] = attempt[t] + 1]
  /\ IF attempt[t] + 1 < MAX_REGISTRATION_ATTEMPTS
     THEN /\ pc' = [pc EXCEPT ![t] = "register"]
          /\ credentials' = [credentials EXCEPT ![t] = attempt[t] + 2]
     ELSE /\ pc' = [pc EXCEPT ![t] = "gvt_return"]
          /\ UNCHANGED credentials
  /\ UNCHANGED <<fixed, answer, reqHist, idxVars, auth_token, next_token,
                 started, prov, used, STATE_LOCK, session, snapshot>>

\* _create_new_session, lines 75-77: _save_session(new_session); return it
_create_new_session(t) ==
  /\ app = "main" /\ pc[t] = "save"
  /\ session_file' = _save_session(session[t])
  /\ charged' = 0
  /\ saves' = [saves EXCEPT ![t] = @ + 1]
  /\ pc' = [pc EXCEPT ![t] = "gvt_return"]
  /\ UNCHANGED <<fixed, answer, credentials, reqHist, idxVars, auth_token,
                 next_token, started, prov, used, STATE_LOCK, session,
                 attempt, snapshot>>

\* line 88 returning with STATE_LOCK still held
get_valid_token_keeps_lock(t) ==
  /\ app = "main" /\ pc[t] = "gvt_return"
  /\ auth_token' = [auth_token EXCEPT ![t] = session[t].token]
  /\ pc' = [pc EXCEPT ![t] = "upload"]
  /\ UNCHANGED <<fixed, answer, provHist, reqHist, idxVars, next_token,
                 started, prov, used, session_file, STATE_LOCK, session,
                 attempt, snapshot, charged>>

\* get_valid_token, line 88: return session["token"], leaving the `with`
get_valid_token(t) ==
  /\ app = "main" /\ pc[t] = "gvt_return"
  /\ auth_token' = [auth_token EXCEPT ![t] = session[t].token]
  /\ STATE_LOCK' = NoLock
  /\ pc' = [pc EXCEPT ![t] = "upload"]
  /\ UNCHANGED <<fixed, answer, provHist, reqHist, idxVars, next_token,
                 started, prov, used, session_file, session, attempt,
                 snapshot, charged>>

\* convert_statement_endpoint, line 111: upload_statement
upload_statement(t) ==
  /\ app = "main" /\ pc[t] = "upload"
  /\ \E ok \in BOOLEAN :
       pc' = [pc EXCEPT ![t] = IF ok THEN "convert" ELSE "error"]
  /\ UNCHANGED <<fixed, answer, provHist, reqHist, mainVars, idxVars,
                 auth_token, next_token, started, prov, used>>

\* convert_statement_endpoint, line 114: poll_and_convert_statement
poll_and_convert_statement(t) ==
  /\ app = "main" /\ pc[t] = "convert"
  /\ \E ok \in BOOLEAN :
       IF ok THEN /\ pc' = [pc EXCEPT ![t] = "rec_lock"]
                  /\ used' = [used EXCEPT ![auth_token[t]] = @ + 1]
                  /\ converted' = [converted EXCEPT ![t] = TRUE]
       ELSE /\ pc' = [pc EXCEPT ![t] = "error"]
            /\ UNCHANGED <<used, converted>>
  /\ UNCHANGED <<fixed, answer, provHist, recorded, mainVars, idxVars,
                 auth_token, next_token, started, prov>>

\* line 116 without the lock
record_usage_no_lock(t) ==
  /\ app = "main" /\ pc[t] = "rec_lock"
  /\ STATE_LOCK' = t
  /\ pc' = [pc EXCEPT ![t] = "rec_load"]
  /\ UNCHANGED <<fixed, answer, provHist, reqHist, idxVars, auth_token,
                 next_token, started, prov, used, session_file, session,
                 attempt, snapshot, charged>>

\* convert_statement_endpoint, line 116: with STATE_LOCK
record_usage_acquire(t) ==
  /\ app = "main" /\ pc[t] = "rec_lock"
  /\ STATE_LOCK = NoLock
  /\ STATE_LOCK' = t
  /\ pc' = [pc EXCEPT ![t] = "rec_load"]
  /\ UNCHANGED <<fixed, answer, provHist, reqHist, idxVars, auth_token,
                 next_token, started, prov, used, session_file, session,
                 attempt, snapshot, charged>>

\* line 118 adding 2
record_usage_load_by_two(t) ==
  /\ app = "main" /\ pc[t] = "rec_load"
  /\ session' = [session EXCEPT ![t] =
       [_load_session(session_file) EXCEPT !.usage_count = @ + 2]]
  /\ pc' = [pc EXCEPT ![t] = "rec_save"]
  /\ UNCHANGED <<fixed, answer, provHist, reqHist, idxVars, auth_token,
                 next_token, started, prov, used, session_file, STATE_LOCK,
                 attempt, snapshot, charged>>

\* convert_statement_endpoint, lines 117-118: load and increment
record_usage_load(t) ==
  /\ app = "main" /\ pc[t] = "rec_load"
  /\ session' = [session EXCEPT ![t] =
       [_load_session(session_file) EXCEPT !.usage_count = @ + 1]]
  /\ pc' = [pc EXCEPT ![t] = "rec_save"]
  /\ UNCHANGED <<fixed, answer, provHist, reqHist, idxVars, auth_token,
                 next_token, started, prov, used, session_file, STATE_LOCK,
                 attempt, snapshot, charged>>

\* convert_statement_endpoint, lines 119-124: save, leave the `with`, build
\* the response
record_usage_save(t) ==
  /\ app = "main" /\ pc[t] = "rec_save"
  /\ session_file' = _save_session(session[t])
  /\ charged' = charged + 1
  /\ recorded' = [recorded EXCEPT ![t] = @ + 1]
  /\ STATE_LOCK' = NoLock
  /\ pc' = [pc EXCEPT ![t] = "done"]
  /\ UNCHANGED <<fixed, answer, provHist, converted, idxVars, auth_token,
                 next_token, started, prov, used, session, attempt, snapshot>>

\* convert_statement_endpoint, lines 98, 124, 129-135: the request is
\* answered and its locals are gone
convert_statement_endpoint_return(t) ==
  /\ app = "main" /\ pc[t] \in {"done", "error", "rejected"}
  /\ pc' = [pc EXCEPT ![t] = "idle"]
  /\ auth_token' = [auth_token EXCEPT ![t] = None]
  /\ session' = [session EXCEPT ![t] = EmptySession]
  /\ attempt' = [attempt EXCEPT ![t] = 0]
  /\ snapshot' = [snapshot EXCEPT ![t] = NoFile]
  /\ prov' = [prov EXCEPT ![t] = 0]
  /\ credentials' = [credentials EXCEPT ![t] = 0]
  /\ saves' = [saves EXCEPT ![t] = 0]
  /\ converted' = [converted EXCEPT ![t] = FALSE]
  /\ recorded' = [recorded EXCEPT ![t] = 0]
  /\ UNCHANGED <<fixed, answer, idxVars, next_token, started, used,
                 session_file, STATE_LOCK, charged>>

\* the steps of a request that has been received
MainStep(t) ==
  \/ get_valid_token_acquire(t)
  \/ get_valid_token_load(t)
  \/ register_user(t)
  \/ check_inbox(t)
  \/ read_email(t)
  \/ extract_verification_link_from_html(t)
  \/ verify_email_account(t)
  \/ login(t)
  \/ _create_new_session(t)
  \/ get_valid_token(t)
  \/ upload_statement(t)
  \/ poll_and_convert_statement(t)
  \/ record_usage_acquire(t)
  \/ record_usage_load(t)
  \/ record_usage_save(t)
  \/ convert_statement_endpoint_return(t)

MainNext ==
  \E t \in Threads : convert_statement_endpoint(t) \/ MainStep(t)

\* =============================================================== api/index.py
\* convert_bank_statement, lines 142-149: 503 without a Redis client, 400
\* without a PDF, else call get_valid_token()
convert_bank_statement(t) ==
  /\ app = "index" /\ pc[t] = "idle" /\ started < MaxRequests
  /\ started' = started + 1
  /\ IF ~redis_client
     THEN pc' = [pc EXCEPT ![t] = "error"]
     ELSE \E pdf \in BOOLEAN :
            pc' = [pc EXCEPT ![t] = IF pdf THEN "gvt_credits" ELSE "rejected"]
  /\ UNCHANGED <<fixed, answer, provHist, reqHist, mainVars, idxVars,
                 auth_token, next_token, prov, used>>

\* lines 100-105 with a new account only once credits is below 0
AccountManager_get_valid_token_credits_below_zero(t) ==
  /\ app = "index" /\ pc[t] = "gvt_credits"
  /\ IF IntOrZero(redis.credits) < 0
     THEN /\ pc' = [pc EXCEPT ![t] = "cna_register"]
          /\ prov' = [prov EXCEPT ![t] = 1]
          /\ UNCHANGED seen
     ELSE /\ pc' = [pc EXCEPT ![t] = "gvt_token"]
          /\ prov' = [prov EXCEPT ![t] = 0]
          /\ seen' = [seen EXCEPT ![t] = unauthorized]
  /\ UNCHANGED <<fixed, answer, provHist, reqHist, mainVars, redis, base,
                 decrs, unauthorized, auth_token, next_token, started, used>>

\* lines 100-105 with provisioning left to the request that is already in
\* create_new_account
AccountManager_get_valid_token_credits_single(t) ==
  /\ app = "index" /\ pc[t] = "gvt_credits"
  /\ IF /\ IntOrZero(redis.credits) <= 0
        /\ \A u \in Threads \ {t} : prov[u] = 0
     THEN /\ pc' = [pc EXCEPT ![t] = "cna_register"]
          /\ prov' = [prov EXCEPT ![t] = 1]
          /\ UNCHANGED seen
     ELSE /\ pc' = [pc EXCEPT ![t] = "gvt_token"]
          /\ prov' = [prov EXCEPT ![t] = 0]
          /\ seen' = [seen EXCEPT ![t] = unauthorized]
  /\ UNCHANGED <<fixed, answer, provHist, reqHist, mainVars, redis, base,
                 decrs, unauthorized, auth_token, next_token, started, used>>

\* AccountManager.get_valid_token, lines 100-105: read the credits key
AccountManager_get_valid_token_credits(t) ==
  /\ app = "index" /\ pc[t] = "gvt_credits"
  /\ IF IntOrZero(redis.credits) <= 0
     THEN /\ pc' = [pc EXCEPT ![t] = "cna_register"]
          /\ prov' = [prov EXCEPT ![t] = 1]
          /\ UNCHANGED seen
     ELSE /\ pc' = [pc EXCEPT ![t] = "gvt_token"]
          /\ prov' = [prov EXCEPT ![t] = 0]
          /\ seen' = [seen EXCEPT ![t] = unauthorized]
  /\ UNCHANGED <<fixed, answer, provHist, reqHist, mainVars, redis, base,
                 decrs, unauthorized, auth_token, next_token, started, used>>

\* AccountManager.get_valid_token, lines 107-113: read the auth_token key
AccountManager_get_valid_token(t) ==
  /\ app = "index" /\ pc[t] = "gvt_token"
  /\ IF redis.auth_token = None
     THEN /\ pc' = [pc EXCEPT ![t] = "cna_register"]
          /\ prov' = [prov EXCEPT ![t] = 1]
          /\ UNCHANGED auth_token
     ELSE /\ pc' = [pc EXCEPT ![t] = "upload"]
          /\ auth_token' = [auth_token EXCEPT ![t] = redis.auth_token]
          /\ UNCHANGED prov
  /\ seen' = [seen EXCEPT ![t] = None]
  /\ UNCHANGED <<fixed, answer, provHist, reqHist, mainVars, redis, base,
                 decrs, unauthorized, next_token, started, used>>

\* create_new_account, a step that keeps nothing; a raise leaves the handler
\* through `except Exception` (175-176)
AccountStep(t, here, then) ==
  /\ app = "index" /\ pc[t] = here
  /\ \E ok \in BOOLEAN :
       pc' = [pc EXCEPT ![t] = IF ok THEN then ELSE "error"]
  /\ answer' = [answer EXCEPT ![t] = 0]
  /\ UNCHANGED <<fixed, provHist, reqHist, mainVars, idxVars, auth_token,
                 next_token, started, prov, used>>

\* the statuses a dropped response can carry
Answers == {200, 500}

\* create_new_account, a request whose response is dropped (lines 82 and
\* 87): the call returns whatever the status is; only a request error
\* (connection, timeout) raises
DroppedResponse(t, here, then) ==
  /\ app = "index" /\ pc[t] = here
  /\ \/ \E status \in Answers :
          /\ pc' = [pc EXCEPT ![t] = then]
          /\ answer' = [answer EXCEPT ![t] = status]
     \/ /\ pc' = [pc EXCEPT ![t] = "error"]
        /\ answer' = [answer EXCEPT ![t] = 0]
  /\ UNCHANGED <<fixed, provHist, reqHist, mainVars, idxVars, auth_token,
                 next_token, started, prov, used>>

\* create_new_account, line 82: POST /register
create_new_account_register(t) ==
  DroppedResponse(t, "cna_register", "cna_link")
\* create_new_account, lines 83-85: no link is answered 504
_get_verification_link(t) == AccountStep(t, "cna_link", "cna_verify")
\* create_new_account, line 87: GET of the verification link
create_new_account_verify(t) == DroppedResponse(t, "cna_verify", "cna_login")

\* lines 169-174 with the credit taken on the error path as well
HTTPStatusError_uses_credit(t, status) ==
  /\ pc' = [pc EXCEPT ![t] = "error"]
  /\ IF status = 401
     THEN /\ redis' = [redis EXCEPT !.credits = <<0>>]
          /\ base' = 0
          /\ decrs' = 0
          /\ unauthorized' = IF auth_token[t] = None THEN unauthorized
                                                    ELSE auth_token[t]
     ELSE /\ redis' = [redis EXCEPT !.credits = DECR(redis.credits)]
          /\ decrs' = decrs + 1
          /\ UNCHANGED <<base, unauthorized>>
  /\ recorded' = [recorded EXCEPT ![t] = @ + 1]
  /\ UNCHANGED seen

\* the handler's `except httpx.HTTPStatusError`, lines 169-174: a 401 sets
\* the credits key to 0; every status is answered as an error
HTTPStatusError(t, status) ==
  /\ pc' = [pc EXCEPT ![t] = "error"]
  /\ IF status = 401
     THEN /\ redis' = [redis EXCEPT !.credits = <<0>>]
          /\ base' = 0
          /\ decrs' = 0
          /\ unauthorized' = IF auth_token[t] = None THEN unauthorized
                                                    ELSE auth_token[t]
     ELSE UNCHANGED <<redis, base, decrs, unauthorized>>
  /\ UNCHANGED <<recorded, seen>>

Statuses == {200, 401, 500}

\* create_new_account, lines 89-91: POST /login, raise_for_status, token
create_new_account_login(t) ==
  /\ app = "index" /\ pc[t] = "cna_login"
  /\ answer' = [answer EXCEPT ![t] = 0]
  /\ \E status \in Statuses :
       IF status = 200
       THEN /\ next_token' = next_token + 1
            /\ auth_token' = [auth_token EXCEPT ![t] = next_token + 1]
            /\ pc' = [pc EXCEPT ![t] = "cna_set_token"]
            /\ UNCHANGED <<redis, base, decrs, recorded, unauthorized, seen>>
       ELSE /\ HTTPStatusError(t, status)
            /\ UNCHANGED <<next_token, auth_token>>
  /\ UNCHANGED <<fixed, provHist, converted, mainVars, started, prov, used>>

\* create_new_account, line 93: SET auth_token
create_new_account_set_token(t) ==
  /\ app = "index" /\ pc[t] = "cna_set_token"
  /\ redis' = [redis EXCEPT !.auth_token = auth_token[t]]
  /\ pc' = [pc EXCEPT ![t] = "cna_set_credits"]
  /\ UNCHANGED <<fixed, answer, provHist, reqHist, mainVars, auth_token,
                 next_token, started, prov, used, base, decrs, unauthorized,
                 seen>>

\* create_new_account, lines 94-96: SET credits 5; return token
create_new_account(t) ==
  /\ app = "index" /\ pc[t] = "cna_set_credits"
  /\ redis' = [redis EXCEPT !.credits = <<CREDITS_PER_ACCOUNT>>]
  /\ base' = CREDITS_PER_ACCOUNT
  /\ decrs' = 0
  /\ pc' = [pc EXCEPT ![t] = "upload"]
  /\ UNCHANGED <<fixed, answer, provHist, reqHist, mainVars, auth_token,
                 next_token, started, prov, used, unauthorized, seen>>

\* convert_bank_statement, lines 152-156: POST /BankStatement
convert_bank_statement_upload(t) ==
  /\ app = "index" /\ pc[t] = "upload"
  /\ \E status \in Statuses :
       IF status = 200
       THEN /\ pc' = [pc EXCEPT ![t] = "convert"]
            /\ UNCHANGED <<redis, base, decrs, recorded, unauthorized, seen>>
       ELSE HTTPStatusError(t, status)
  /\ UNCHANGED <<fixed, answer, provHist, converted, mainVars, auth_token,
                 next_token, started, prov, used>>

\* convert_bank_statement, lines 158-164: POST /BankStatement/convert
convert_bank_statement_convert(t) ==
  /\ app = "index" /\ pc[t] = "convert"
  /\ \E status \in Statuses :
       IF status = 200
       THEN /\ pc' = [pc EXCEPT ![t] = "use_credit"]
            /\ converted' = [converted EXCEPT ![t] = TRUE]
            /\ UNCHANGED <<redis, base, decrs, recorded, unauthorized, seen>>
       ELSE /\ HTTPStatusError(t, status)
            /\ UNCHANGED converted
  /\ UNCHANGED <<fixed, answer, provHist, mainVars, auth_token, next_token,
                 started, prov, used>>

\* use_credit, lines 115-119 (called at 166): DECR credits; build the response
use_credit(t) ==
  /\ app = "index" /\ pc[t] = "use_credit"
  /\ redis' = [redis EXCEPT !.credits = DECR(redis.credits)]
  /\ decrs' = decrs + 1
  /\ recorded' = [recorded EXCEPT ![t] = @ + 1]
  /\ pc' = [pc EXCEPT ![t] = "done"]
  /\ UNCHANGED <<fixed, answer, provHist, converted, mainVars, auth_token,
                 next_token, started, prov, used, base, unauthorized, seen>>

\* convert_bank_statement, lines 143, 146, 167, 174, 176: the request is
\* answered and its locals are gone
convert_bank_statement_return(t) ==
  /\ app = "index" /\ pc[t] \in {"done", "error", "rejected"}
  /\ pc' = [pc EXCEPT ![t] = "idle"]
  /\ auth_token' = [auth_token EXCEPT ![t] = None]
  /\ prov' = [prov EXCEPT ![t] = 0]
  /\ converted' = [converted EXCEPT ![t] = FALSE]
  /\ recorded' = [recorded EXCEPT ![t] = 0]
  /\ UNCHANGED <<fixed, answer, provHist, mainVars, idxVars, next_token,
                 started, used>>

IndexNext ==
  \E t \in Threads :
    \/ convert_bank_statement(t)
    \/ AccountManager_get_valid_token_credits(t)
    \/ AccountManager_get_valid_token(t)
    \/ create_new_account_register(t)
    \/ _get_verification_link(t)
    \/ create_new_account_verify(t)
    \/ create_new_account_login(t)
    \/ create_new_account_set_token(t)
    \/ create_new_account(t)
    \/ convert_bank_statement_upload(t)
    \/ convert_bank_statement_convert(t)
    \/ use_credit(t)
    \/ convert_bank_statement_return(t)

Next == MainNext \/ IndexNext

Spec == Init /\ [][Next]_vars

\* main.py alone, with every received request given its turn: a thread that
\* can take a step (it is not blocked on STATE_LOCK held by another, every
\* external call returns or raises within its timeout) eventually takes
\* one.  Nothing is assumed about the arrival of requests.
MainInit == Init /\ app = "main"
FairSpec ==
  MainInit /\ [][MainNext]_vars /\ \A t \in Threads : WF_vars(MainStep(t))

\* ============================================================ polling loops
\* The three bounded poll loops, each followed from its call to its end:
\* api_calls.check_inbox and poll_and_convert_statement (used by main.py) and
\* AccountManager._get_verification_link (index.py).  The mailbox provider
\* and the conversion service choose every response.

MaxInbox == 2                     \* messages in one inbox listing

max_retries == 15                 \* check_inbox
max_wait_time == 90               \* poll_and_convert_statement
poll_interval == 3
INBOX_POLLS == 3                  \* _get_verification_link: range(3)

\* A subject is a sequence of words; str.lower() works word by word.
Lower(w) ==
  CASE w = "Verify" -> "verify" [] w = "VERIFY" -> "verify"
    [] w = "Email" -> "email"   [] w = "EMAIL" -> "email"
    [] w = "Please" -> "please" [] w = "Welcome" -> "welcome"
    [] OTHER -> w
lower(subject) == [k \in 1..Len(subject) |-> Lower(subject[k])]

\* Python's `phrase in text` on sequences of words
Contains(phrase, text) ==
  \E k \in 0..(Len(text) - Len(phrase)) :
    \A j \in 1..Len(phrase) : text[k + j] = phrase[j]

\* check_inbox, line 54: "verify email" in item.get("subject", "").lower()
IsVerifyEmail(item) == Contains(<<"verify", "email">>, lower(item.subject))

\* the subjects a message can carry; <<>> is a message without subject
Subjects ==
  { <<>>, <<"Welcome">>, <<"verify", "your", "email">>,
    <<"verify", "email">>, <<"Please", "Verify", "Email">>,
    <<"VERIFY", "EMAIL">> }
\* link: the body has the anchor that index.py line 63 looks for
Messages == [subject : Subjects, link : BOOLEAN]
Listings == UNION {[1..n -> Messages] : n \in 0..MaxInbox}

\* check_inbox, lines 53-56: the position of the first item of the listing,
\* from position j on, that has the subject; 0 when the loop runs out
RECURSIVE ScanResult(_, _)
ScanResult(result, j) ==
  IF j > Len(result) THEN 0
  ELSE IF IsVerifyEmail(result[j]) THEN j
  ELSE ScanResult(result, j + 1)

PollInit ==
  /\ RequestInit
  /\ session_file = NoFile /\ redis = NoKeys /\ redis_client = TRUE
  /\ fn \in {"check_inbox", "_get_verification_link",
             "poll_and_convert_statement"}
  /\ app = (IF fn = "_get_verification_link" THEN "index" ELSE "main")
  /\ at = "request" /\ outcome = "running"
  /\ iteration = 0 /\ status_code = 0 /\ inbox = <<>> /\ found = 0
  /\ polls = 0 /\ sleeps = 0 /\ not_ready = 0 /\ errors = 0

\* an iteration that did not return goes to its sleep
Retry ==
  /\ at' = "sleep"
  /\ UNCHANGED <<outcome, found, iteration>>

\* the function is left: by return, or by an exception
Leave(how) ==
  /\ at' = "end"
  /\ outcome' = how
  /\ UNCHANGED iteration

\* check_inbox line 60, _get_verification_link line 68,
\* poll_and_convert_statement lines 27 and 32: sleep, then the next
\* iteration; the listing of this iteration is dropped
async_sleep ==
  /\ at = "sleep"
  /\ sleeps' = sleeps + 1
  /\ iteration' = iteration + 1
  /\ inbox' = <<>>
  /\ at' = "request"
  /\ UNCHANGED <<requestVars, fn, status_code, outcome, found, polls,
                 not_ready, errors>>

\* check_inbox, lines 47-60: one iteration
check_inbox_poll ==
  /\ fn = "check_inbox" /\ at = "request" /\ iteration < max_retries
  /\ polls' = polls + 1
  /\ \/ \* line 49 raises httpx.RequestError: caught at 57, then 59-60
        /\ status_code' = 0 /\ errors' = errors + 1
        /\ Retry
        /\ UNCHANGED inbox
     \/ \* line 50: raise_for_status() raises httpx.HTTPStatusError, which
        \* `except httpx.RequestError` does not catch: it leaves check_inbox
        /\ status_code' = 500
        /\ Leave("HTTPStatusError")
        /\ UNCHANGED <<inbox, found, errors>>
     \/ \* lines 51-56: a listing; return the id of the first match
        \E result \in Listings :
          /\ status_code' = 200 /\ inbox' = result
          /\ IF ScanResult(result, 1) # 0
             THEN /\ found' = ScanResult(result, 1)
                  /\ Leave("returned")
             ELSE Retry
          /\ UNCHANGED errors
  /\ UNCHANGED <<requestVars, fn, sleeps, not_ready>>

\* check_inbox, line 61: the loop is over
check_inbox_raise ==
  /\ fn = "check_inbox" /\ at = "request" /\ iteration = max_retries
  /\ Leave("timeout")
  /\ UNCHANGED <<requestVars, fn, status_code, inbox, found, polls, sleeps,
                 not_ready, errors>>

\* _get_verification_link, lines 51-68: one iteration; every exception is
\* caught at 66
_get_verification_link_poll ==
  /\ fn = "_get_verification_link" /\ at = "request"
  /\ iteration < INBOX_POLLS
  /\ polls' = polls + 1
  /\ \/ \* line 54 raises
        /\ status_code' = 0 /\ errors' = errors + 1
        /\ Retry
        /\ UNCHANGED inbox
     \/ \* line 55: raise_for_status() raises
        /\ status_code' = 500
        /\ Retry
        /\ UNCHANGED <<inbox, errors>>
     \/ \* lines 56-65: a listing; result[0] is fetched (or the fetch
        \* raises) and searched
        \E result \in Listings, fetched \in BOOLEAN :
          /\ status_code' = (IF fetched THEN 200 ELSE 0) /\ inbox' = result
          /\ IF result # <<>> /\ fetched /\ result[1].link
             THEN /\ found' = 1
                  /\ Leave("returned")
             ELSE Retry
          /\ UNCHANGED errors
  /\ UNCHANGED <<requestVars, fn, sleeps, not_ready>>

\* _get_verification_link, lines 69-70: return None
_get_verification_link_none ==
  /\ fn = "_get_verification_link" /\ at = "request"
  /\ iteration = INBOX_POLLS
  /\ Leave("absent")
  /\ UNCHANGED <<requestVars, fn, status_code, inbox, found, polls, sleeps,
                 not_ready, errors>>

\* the answers of the conversion endpoint; 0: the request raised RequestError
ConvertAnswers == {0, 200, 202, 400, 500}

\* line 19 with one submission more
Submissions_one_more == max_wait_time \div poll_interval + 1
\* poll_and_convert_statement, line 19: range(max_wait_time // poll_interval)
Submissions == max_wait_time \div poll_interval

\* poll_and_convert_statement, lines 19-32: one iteration
poll_and_convert_statement_submit ==
  /\ fn = "poll_and_convert_statement" /\ at = "request"
  /\ iteration < Submissions
  /\ polls' = polls + 1
  /\ \E code \in ConvertAnswers :
       /\ status_code' = code
       /\ CASE code = 200 ->            \* lines 22-24
                 /\ Leave("returned")
                 /\ UNCHANGED <<not_ready, errors>>
            [] code = 400 ->            \* lines 25-27
                 /\ not_ready' = not_ready + 1
                 /\ Retry
                 /\ UNCHANGED errors
            [] code = 0 ->              \* lines 30-32
                 /\ errors' = errors + 1
                 /\ Retry
                 /\ UNCHANGED not_ready
            [] code >= 401 ->           \* line 29 raises HTTPStatusError
                 /\ Leave("HTTPStatusError")
                 /\ UNCHANGED <<not_ready, errors>>
            [] OTHER ->                 \* line 29 returns: next iteration
                 /\ iteration' = iteration + 1
                 /\ UNCHANGED <<at, outcome, not_ready, errors>>
  /\ UNCHANGED <<requestVars, fn, inbox, found, sleeps>>

\* poll_and_convert_statement, line 33: the loop is over
poll_and_convert_statement_raise ==
  /\ fn = "poll_and_convert_statement" /\ at = "request"
  /\ iteration = Submissions
  /\ Leave("timeout")
  /\ UNCHANGED <<requestVars, fn, status_code, inbox, found, polls, sleeps,
                 not_ready, errors>>

PollNext ==
  \/ check_inbox_poll
  \/ check_inbox_raise
  \/ _get_verification_link_poll
  \/ _get_verification_link_none
  \/ poll_and_convert_statement_submit
  \/ poll_and_convert_statement_raise
  \/ async_sleep

PollSpec == PollInit /\ [][PollNext]_vars

\* ================================================================ properties
\* steps of request t
Returns(t) ==                     \* get_valid_token() of main.py returns
  app = "main" /\ pc[t] = "gvt_return" /\ pc'[t] = "upload"
Raises(t) ==                      \* _create_new_session gives up
  /\ app = "main" /\ pc'[t] = "error"
  /\ pc[t] \in {"register", "check_inbox", "read_email", "extract_link",
                "verify", "login"}
IndexReturns(t) ==                \* get_valid_token() of index.py returns
  app = "index" /\ pc[t] \in {"gvt_token", "cna_set_credits"}
                /\ pc'[t] = "upload"

\* the Session a call found is usable as it is
Usable(f) ==
  f.exists /\ f.readable /\ f.token # None /\ f.usage_count < MAX_USAGE

InCriticalSection(t) ==
  pc[t] \in {"gvt_load", "register", "check_inbox", "read_email",
             "extract_link", "verify", "login", "save", "gvt_return",
             "rec_load", "rec_save"}

\* C1: a call of get_valid_token() that finds a Session with a token and
\* usage_count < MAX_USAGE (index.py: credits > 0 and an auth_token) returns
\* exactly the stored token, runs no provisioning and writes nothing.
C1_UsableSessionReturnedAsIs ==
  [][\A t \in Threads :
       /\ (Returns(t) /\ Usable(snapshot[t])) =>
            /\ auth_token'[t] = snapshot[t].token
            /\ prov[t] = 0
            /\ session_file' = snapshot[t]
       /\ (app = "index" /\ pc[t] \in {"gvt_credits", "gvt_token"}
             /\ pc'[t] # pc[t]) => redis' = redis
       /\ (app = "index" /\ pc[t] = "gvt_token" /\ pc'[t] # pc[t]
             /\ redis.auth_token # None) =>
            /\ pc'[t] = "upload"
            /\ auth_token'[t] = redis.auth_token
            /\ prov'[t] = 0
    ]_vars

\* the spec's scenario {token: "abc", usage_count: 4}: returned as it is
C1_Witness ==
  \E t \in Threads :
    /\ app = "main" /\ pc[t] = "upload" /\ prov[t] = 0
    /\ snapshot[t] = FileOf([token |-> 1, usage_count |-> MAX_USAGE - 1])
    /\ auth_token[t] = 1
    /\ session_file = snapshot[t]

\* C2: a call of get_valid_token() that finds no token or usage_count >=
\* MAX_USAGE and whose provisioning succeeds has run one provisioning
\* sequence, has persisted {token: <new>, usage_count: 0} and returns the new
\* token, the last one the upstream issued, not the old one.
C2_ExhaustedSessionReplaced ==
  [][\A t \in Threads :
       (Returns(t) /\ ~Usable(snapshot[t])) =>
          /\ prov[t] = 1
          /\ auth_token'[t] # None
          /\ auth_token'[t] # snapshot[t].token
          /\ auth_token'[t] = next_token
          /\ session_file' =
               FileOf([token |-> auth_token'[t], usage_count |-> 0])
    ]_vars

\* the spec's scenario {token: "abc", usage_count: 5}: replaced by token 2
C2_Witness ==
  \E t \in Threads :
    /\ app = "main" /\ pc[t] = "upload" /\ prov[t] = 1
    /\ snapshot[t] = FileOf([token |-> 1, usage_count |-> MAX_USAGE])
    /\ auth_token[t] = 2
    /\ session_file = FileOf([token |-> 2, usage_count |-> 0])

\* C3 (as amended): in main.py, when get_valid_token() returns a token the
\* persisted Session holds that token with usage_count < MAX_USAGE.
C3_MainReturnsTokenBelowQuota ==
  [][\A t \in Threads :
       Returns(t) =>
          /\ session_file'.exists
          /\ session_file'.token = auth_token'[t]
          /\ session_file'.usage_count < MAX_USAGE
    ]_vars

\* a call returned the stored token while another request was in flight
C3_Witness ==
  \E t, u \in Threads :
    /\ t # u /\ app = "main"
    /\ pc[t] = "upload" /\ auth_token[t] = session_file.token
    /\ session_file.usage_count < MAX_USAGE
    /\ pc[u] \in {"upload", "convert", "rec_lock"}

\* C3 (as claimed): in both applications, when get_valid_token() returns a
\* token the store holds that token with quota left (index.py: credits > 0).
C3_ReturnsTokenBelowQuota ==
  [][\A t \in Threads :
       /\ Returns(t) =>
            /\ session_file'.token = auth_token'[t]
            /\ session_file'.usage_count < MAX_USAGE
       /\ IndexReturns(t) =>
            /\ redis'.auth_token = auth_token'[t]
            /\ IntOrZero(redis'.credits) > 0
    ]_vars

\* C4: MAX_USAGE is a maximum per token in main.py: usage_count never exceeds
\* it and no token serves more than MAX_USAGE successful conversions.
C4_QuotaNeverExceeded ==
  app = "main" =>
    /\ session_file.usage_count <= MAX_USAGE
    /\ \A k \in Tokens : used[k] <= MAX_USAGE

\* C5: usage is charged to the token that was used: every increment
\* (index.py: decrement) is applied while the store still holds the token the
\* conversion used, the counter goes to 0 exactly when a new token is
\* installed, and with no conversion waiting to be recorded usage_count is the
\* number of conversions made with the installed token.
C5_UsageChargedToItsToken ==
  [][/\ \A t \in Threads :
          /\ (app = "main" /\ pc[t] = "rec_save" /\ pc'[t] = "done") =>
               session_file.token = auth_token[t]
          /\ (app = "index" /\ pc[t] = "use_credit" /\ pc'[t] = "done") =>
               redis.auth_token = auth_token[t]
     /\ app = "main" =>
          ((session_file'.usage_count = 0 /\ session_file' # session_file)
             <=> session_file'.token # session_file.token)
     /\ (app = "main" /\ session_file'.exists /\ session_file'.readable
           /\ \A t \in Threads :
                pc'[t] \notin {"rec_lock", "rec_load", "rec_save"})
          => session_file'.usage_count = used'[session_file'.token]
    ]_vars

\* C6: when every attempt fails, _create_new_session has made exactly
\* MAX_REGISTRATION_ATTEMPTS attempts when it raises, the lock is released
\* and session.json is what the call found.
C6_ExhaustionLeavesSession ==
  [][\A t \in Threads :
       Raises(t) =>
          /\ attempt'[t] = MAX_REGISTRATION_ATTEMPTS
          /\ STATE_LOCK' = NoLock
          /\ session_file' = snapshot[t]
          /\ session_file' = session_file
    ]_vars

\* a call gave up on an exhausted Session, which is still in place
C6_Witness ==
  \E t \in Threads :
    /\ app = "main" /\ pc[t] = "error" /\ prov[t] = 1
    /\ attempt[t] = MAX_REGISTRATION_ATTEMPTS
    /\ snapshot[t] = FileOf([token |-> 1, usage_count |-> MAX_USAGE])
    /\ session_file = snapshot[t]

\* C7: the Session is replaced wholesale: a step that changes the stored
\* token stores the reset counter with it (usage_count 0, credits 5), and a
\* step that leaves the token leaves the counter or charges one usage.
C7_SessionReplacedWholesale ==
  [][/\ app = "main" =>
          IF session_file'.token # session_file.token
          THEN session_file'.usage_count = 0
          ELSE session_file'.usage_count \in
                 {session_file.usage_count, session_file.usage_count + 1}
     /\ app = "index" =>
          (redis'.auth_token # redis.auth_token =>
             redis'.credits = <<CREDITS_PER_ACCOUNT>>)
    ]_vars

\* C8: STATE_LOCK makes get_valid_token() of main.py mutually exclusive: at
\* most one request is inside a `with STATE_LOCK` block and it is the
\* holder; a new token is installed only over a Session that was not usable,
\* so one provisioning serves every request that waited for it.
C8_ProvisioningSerialized ==
  /\ [](app = "main" =>
          /\ Cardinality({t \in Threads : InCriticalSection(t)}) <= 1
          /\ \A t \in Threads : InCriticalSection(t) <=> STATE_LOCK = t)
  /\ [][(app = "main" /\ session_file'.token # session_file.token)
          => ~Usable(session_file)]_vars

\* two requests met an exhausted Session: one provisioned token 2, the other
\* waited and returned token 2 without provisioning
C8_Witness ==
  \E t, u \in Threads :
    /\ t # u /\ app = "main"
    /\ pc[t] = "upload" /\ prov[t] = 1 /\ auth_token[t] = 2
    /\ snapshot[t] = FileOf([token |-> 1, usage_count |-> MAX_USAGE])
    /\ pc[u] = "upload" /\ prov[u] = 0 /\ auth_token[u] = 2
    /\ snapshot[u] = FileOf([token |-> 2, usage_count |-> 0])

\* C9: no usage update is lost in main.py: usage_count is the count the
\* Session was installed with plus the number of recordings since.
C9_NoLostUsageUpdate ==
  app = "main" =>
    IF session_file.exists THEN session_file.usage_count = charged
    ELSE charged = 0

\* two requests that got the token from the same Session both recorded
C9_Witness ==
  \E t, u \in Threads :
    /\ t # u /\ app = "main"
    /\ pc[t] = "done" /\ pc[u] = "done"
    /\ prov[t] = 0 /\ prov[u] = 0 /\ snapshot[t] = snapshot[u]
    /\ session_file.token = snapshot[t].token
    /\ session_file.usage_count = snapshot[t].usage_count + 2

\* C10: use_credit() loses no update in index.py: credits is the value last
\* SET on the key minus the number of use_credit() calls since.
C10_AtomicDecrement ==
  app = "index" => IntOrZero(redis.credits) = base - decrs

\* two requests in flight together have both spent a credit
C10_Witness ==
  \E t, u \in Threads :
    /\ t # u /\ app = "index"
    /\ pc[t] = "done" /\ pc[u] = "done"
    /\ decrs >= 2 /\ redis.credits = <<base - decrs>>

\* ---------------------------------------------------------------------- C11
\* inside create_new_account with the registration already sent (line 82)
Registered(t) ==
  pc[t] \in {"cna_link", "cna_verify", "cna_login", "cna_set_token",
             "cna_set_credits"}

\* C11: in index.py nothing keeps a second request out of
\* create_new_account: a request that reads credits <= 0 in
\* get_valid_token() goes on to register an account whatever the other
\* requests are doing, so two requests can be registering for one exhaustion.
C11_RedundantProvisioning ==
  [][\A t \in Threads :
       (/\ app = "index" /\ pc[t] = "gvt_credits"
        /\ IntOrZero(redis.credits) <= 0
        /\ pc'[t] # pc[t])
       => pc'[t] = "cna_register" /\ prov'[t] = 1]_vars

\* two requests have both read the same exhausted credits key and both have
\* registered an account; the key has not been SET since
C11_Witness ==
  \E t, u \in Threads :
    /\ t # u /\ app = "index"
    /\ prov[t] = 1 /\ prov[u] = 1
    /\ Registered(t) /\ Registered(u)
    /\ redis.auth_token # None /\ redis.credits = <<0>> /\ decrs = 0

\* ---------------------------------------------------------------------- C12
Answered(t) == pc[t] \in {"done", "error", "rejected"}

\* C12: a request records usage at most once and only after its conversion
\* has returned its result; when the request is answered it has recorded
\* usage exactly once if its conversion succeeded and not at all if it was
\* rejected or its token, upload or conversion failed.
C12_UsageRecordedOncePerSuccess ==
  \A t \in Threads :
    /\ recorded[t] \in {0, 1}
    /\ recorded[t] = 1 => converted[t]
    /\ Answered(t) => recorded[t] = (IF converted[t] THEN 1 ELSE 0)
    /\ pc[t] = "done" <=> recorded[t] = 1

\* one request answered with its usage recorded, another answered with an
\* error after it had its token, with nothing recorded
C12_Witness ==
  \E t, u \in Threads :
    /\ pc[t] = "done" /\ converted[t] /\ recorded[t] = 1
    /\ pc[u] = "error" /\ auth_token[u] # None /\ recorded[u] = 0

\* ---------------------------------------------------------------------- C13
\* C13: when the Session Store cannot be read, the operation fails at once
\* and no provisioning step is attempted: a request of main.py that found
\* session.json unreadable is answered with an error without entering
\* _create_new_session, and a request of index.py without a Redis client is
\* answered with an error without entering create_new_account.
C13_UnreadableStoreIsFatal ==
  \A t \in Threads :
    /\ (app = "main" /\ ~snapshot[t].readable)
       => pc[t] = "error" /\ prov[t] = 0
    /\ (app = "index" /\ ~redis_client)
       => pc[t] \in {"idle", "error"} /\ prov[t] = 0

\* ---------------------------------------------------------------------- C14
\* C14: every usage record of main.py adds exactly one to usage_count and
\* leaves the token alone, so N records on a fresh Session give usage_count
\* = N; and get_valid_token() provisions exactly when the Session it loads
\* has no token or has usage_count >= MAX_USAGE: after MAX_USAGE records the
\* next call provisions, after fewer it does not.
C14_SequentialUsage ==
  [][\A t \in Threads :
       /\ (app = "main" /\ pc[t] = "rec_save" /\ pc'[t] = "done")
          => /\ session_file'.usage_count = session_file.usage_count + 1
             /\ session_file'.token = session_file.token
             /\ session_file'.usage_count = charged'
       /\ (app = "main" /\ pc[t] = "gvt_load" /\ pc'[t] # pc[t])
          => (prov'[t] = 1 <=> (\/ ~session_file.exists
                                \/ ~session_file.readable
                                \/ session_file.token = None
                                \/ session_file.usage_count >= MAX_USAGE))
       /\ (app = "main" /\ pc[t] = "gvt_load" /\ pc'[t] # pc[t]
            /\ Usable(session_file))
          => pc'[t] = "gvt_return" /\ prov'[t] = 0
    ]_vars

\* a request recorded the MAX_USAGE-th use of the token and the request
\* after it, alone, found the quota used up and started provisioning
C14_Witness ==
  \E t, u \in Threads :
    /\ app = "main" /\ t # u
    /\ pc[t] = "done" /\ recorded[t] = 1
    /\ snapshot[t] = FileOf([token |-> 1, usage_count |-> MAX_USAGE - 1])
    /\ pc[u] = "register" /\ prov[u] = 1 /\ attempt[u] = 0
    /\ snapshot[u] = FileOf([token |-> 1, usage_count |-> MAX_USAGE])
    /\ charged = MAX_USAGE

\* ---------------------------------------------------------------------- C15
\* the steps of an attempt that can raise (lines 65-73)
AttemptSteps ==
  {"register", "check_inbox", "read_email", "extract_link", "verify",
   "login"}

\* C15: in _create_new_session an error raised by any step of an attempt is
\* caught and, while attempts remain, the next attempt starts at
\* registration with credentials of its own; an attempt works with the
\* credentials made for it and nothing is written before one succeeds.
\* When attempt k is the first to succeed, k - 1 attempts have failed, the
\* Session was written once, as {token, usage_count: 0}, and the loop is
\* left: no step of a further attempt follows the save.
C15_RetryLoop ==
  [][\A t \in Threads : app = "main" =>
       /\ (pc[t] \in AttemptSteps /\ attempt'[t] = attempt[t] + 1)
          => IF attempt'[t] < MAX_REGISTRATION_ATTEMPTS
             THEN /\ pc'[t] = "register"
                  /\ credentials'[t] # credentials[t]
                  /\ session_file' = session_file
             ELSE pc'[t] = "error"
       /\ pc'[t] \in AttemptSteps \cup {"save"}
          => /\ credentials'[t] = attempt'[t] + 1
             /\ attempt'[t] < MAX_REGISTRATION_ATTEMPTS
             /\ saves'[t] = 0
       /\ (pc[t] = "save" /\ pc'[t] # pc[t])
          => /\ pc'[t] = "gvt_return" /\ attempt'[t] = attempt[t]
             /\ saves'[t] = 1
             /\ session_file' = FileOf([token |-> session[t].token,
                                        usage_count |-> 0])
             /\ session[t].token # None
       /\ (Returns(t) /\ prov[t] = 1)
          => /\ saves[t] = 1 /\ credentials[t] = attempt[t] + 1
             /\ session_file = FileOf([token |-> session[t].token,
                                       usage_count |-> 0])
    ]_vars

\* the third attempt was the first to succeed: two attempts failed, the
\* Session was written once and get_valid_token() is about to return
C15_Witness ==
  \E t \in Threads :
    /\ app = "main" /\ pc[t] = "gvt_return" /\ prov[t] = 1
    /\ attempt[t] = 2 /\ credentials[t] = 3 /\ saves[t] = 1
    /\ session_file = FileOf([token |-> session[t].token, usage_count |-> 0])

\* ---------------------------------------------------------------------- C16
\* the steps of one provisioning attempt, in the order of the code
MainOrder ==
  <<"register", "check_inbox", "read_email", "extract_link", "verify",
    "login", "save", "gvt_return">>
IndexOrder ==
  <<"cna_register", "cna_link", "cna_verify", "cna_login", "cna_set_token",
    "cna_set_credits", "upload">>

\* request t moves from step i of `order` to step i + 1 or out of the attempt
InOrder(t, order, out) ==
  \A i \in 1..(Len(order) - 1) :
    (pc[t] = order[i] /\ pc'[t] # pc[t])
      => pc'[t] = order[i + 1] \/ pc'[t] \in out

\* C16: within one provisioning attempt the steps run in the order register,
\* poll inbox, extract link, click the verification link, log in, save, and
\* a step runs only if every earlier step succeeded: the inbox is polled
\* only after a 2xx registration response, login is called only after a
\* successful verification click, and the Session is saved only after login
\* returned a token.
C16_StepsInOrder ==
  [][\A t \in Threads :
       /\ app = "main" =>
            /\ InOrder(t, MainOrder, {"register", "error"})
            /\ (pc[t] = "login" /\ pc'[t] = "save")
                 => session'[t].token # None
       /\ app = "index" =>
            /\ InOrder(t, IndexOrder, {"error"})
            /\ (pc[t] = "cna_register" /\ pc'[t] = "cna_link")
                 => answer'[t] = 200
            /\ (pc[t] = "cna_verify" /\ pc'[t] = "cna_login")
                 => answer'[t] = 200
            /\ (pc[t] = "cna_login" /\ pc'[t] = "cna_set_token")
                 => auth_token'[t] # None
    ]_vars

\* ---------------------------------------------------------------------- C17
Resolving == fn \in {"check_inbox", "_get_verification_link"}
PollBudget == IF fn = "check_inbox" THEN max_retries ELSE INBOX_POLLS

\* the subject contains "verify email" in some letter case
SubjectMatches(m) ==
  m.subject \in { <<"verify", "email">>, <<"Please", "Verify", "Email">>,
                  <<"VERIFY", "EMAIL">> }
\* a message resolution can end with: check_inbox returns the id of the
\* message, _get_verification_link the link in it
Qualifies(m) ==
  SubjectMatches(m) /\ (fn = "_get_verification_link" => m.link)

\* C17: email resolution selects the first message of the listing whose
\* subject contains the marker phrase in any letter case, passing over the
\* messages that do not match, and returns as soon as a poll has such a
\* message: it goes on polling only after a listing without one.  When no
\* poll had one it signals absence after exactly its budget of polls, and
\* it never polls beyond the budget.
C17_FirstMatchingMessage ==
  Resolving =>
    /\ outcome = "returned" =>
         /\ found \in 1..Len(inbox)
         /\ SubjectMatches(inbox[found])
         /\ \A j \in 1..(found - 1) : ~SubjectMatches(inbox[j])
    /\ (at = "sleep" /\ status_code = 200) =>
         \A j \in 1..Len(inbox) : ~Qualifies(inbox[j])
    /\ outcome \in {"timeout", "absent"} => polls = PollBudget
    /\ polls <= PollBudget

\* ---------------------------------------------------------------------- C18
\* C18: a failed inbox poll, whether the request raised or the mailbox
\* provider answered with an error status, never ends email resolution: the
\* resolver goes to its sleep and then polls again, and resolution ends only
\* with a message found or with its budget of polls used up.
C18_FailedPollNeverAborts ==
  [][Resolving =>
       /\ (polls' = polls + 1 /\ status_code' # 200)
          => at' = "sleep" /\ outcome' = "running"
       /\ (at = "sleep" /\ at' # at)
          => at' = "request" /\ sleeps' = sleeps + 1
       /\ outcome' \in {"running", "returned", "timeout", "absent"}
       /\ outcome' \in {"timeout", "absent"} => polls' = PollBudget
    ]_vars

\* ---------------------------------------------------------------------- C19
\* C19: poll_and_convert_statement submits at most 30 times.  A 200 answer
\* makes it return at once; when nothing but k "not ready" (400) answers
\* came before it, k < 30, it returns after exactly k retries and k sleeps,
\* one after each 400.  It signals the timeout only after exactly 30
\* submissions none of which was answered 200.  Any other error status
\* makes it fail at once, with no sleep and no further submission.
C19_ConversionPolling ==
  [][fn = "poll_and_convert_statement" =>
       /\ polls' <= 30
       /\ (polls' = polls + 1 /\ status_code' = 200)
          => /\ at' = "end" /\ outcome' = "returned" /\ sleeps' = sleeps
             /\ polls' = not_ready' + 1
                  => sleeps' = not_ready' /\ not_ready' < 30
       /\ (polls' = polls + 1 /\ status_code' = 400)
          => at' = "sleep" /\ outcome' = "running"
       /\ (at = "sleep" /\ at' # at)
          => at' = "request" /\ sleeps' = sleeps + 1 /\ polls' = polls
       /\ (polls' = polls + 1 /\ status_code' > 400)
          => at' = "end" /\ outcome' = "HTTPStatusError" /\ sleeps' = sleeps
       /\ outcome' = "timeout"
          => polls' = 30 /\ status_code' # 200
       /\ at = "end" => UNCHANGED vars
       /\ at' # "sleep" => sleeps' = not_ready' + errors'
    ]_vars

\* 29 "not ready" answers and then 200: returned by the 30th submission
\* after 29 sleeps
C19_Witness ==
  /\ fn = "poll_and_convert_statement" /\ outcome = "returned"
  /\ not_ready = 29 /\ polls = 30 /\ sleeps = 29 /\ status_code = 200

\* ---------------------------------------------------------------------- C20
\* C20: in main.py every call of get_valid_token() ends, with the token
\* returned or with the exception of provisioning exhaustion, and STATE_LOCK
\* is released on every way out of the `with` blocks: it is held only by a
\* request inside one.  So every request that waits for STATE_LOCK gets it
\* and no request is stuck: a run, which receives finitely many requests,
\* comes to a point from which every received request has been answered
\* and the lock is free.
C20_LockLiveness ==
  /\ [](\A t \in Threads : STATE_LOCK = t => InCriticalSection(t))
  /\ <>[](/\ STATE_LOCK = NoLock
          /\ \A t \in Threads : pc[t] = "idle" \/ Answered(t))

\* a request gave up after MAX_REGISTRATION_ATTEMPTS attempts and another
\* request, received before that, now holds STATE_LOCK
C20_Witness ==
  \E t, u \in Threads :
    /\ app = "main" /\ t # u
    /\ pc[u] = "error" /\ attempt[u] = MAX_REGISTRATION_ATTEMPTS
    /\ STATE_LOCK = t /\ pc[t] = "gvt_load" /\ started = 2

\* ---------------------------------------------------------------------- C21
\* C21: in index.py, once a request got a 401 with token T and set credits to
\* 0, no call of get_valid_token() made after that returns T, whatever
\* use_credit() and create_new_account() do concurrently; a call that finds
\* credits <= 0 provisions a new account.
C21_UnauthorizedTokenNotReturned ==
  [][\A t \in Threads :
       /\ IndexReturns(t) => auth_token'[t] # seen[t]
       /\ (app = "index" /\ pc[t] = "gvt_credits" /\ pc'[t] # pc[t]
             /\ IntOrZero(redis.credits) <= 0) => pc'[t] = "cna_register"
    ]_vars

\* ---------------------------------------------------------------------- C22
\* C22 (as amended): in index.py credits never exceeds the 5 of a new account
\* and falls below 0 by at most one use_credit() of each other request that
\* was in flight when the counter reached 0.
C22_BoundedOverdraft ==
  app = "index" =>
    /\ IntOrZero(redis.credits) <= CREDITS_PER_ACCOUNT
    /\ IntOrZero(redis.credits) >= -(NThreads - 1)

\* two requests got the token while credits was 1 and both spent a credit
C22_Witness ==
  \E t, u \in Threads :
    /\ t # u /\ app = "index"
    /\ pc[t] = "done" /\ pc[u] = "done"
    /\ auth_token[t] = auth_token[u] /\ prov[t] = 0 /\ prov[u] = 0
    /\ redis.credits = <<-1>>

\* C22 (as claimed): in index.py the credits counter is within 0..5 in every
\* reachable state; use_credit() never takes it below 0.
C22_CreditsWithinRange ==
  app = "index" => IntOrZero(redis.credits) \in 0..CREDITS_PER_ACCOUNT

====
